---- MODULE Spec2Model ----
(***************************************************************************)
(* The job queue, the worker loop, the retry controller and the job state  *)
(* machine of trackandtrace/queue_processor.py.                            *)
(*                                                                         *)
(* Threads of control: a producer calling add_job, a controller calling    *)
(* start_processing / stop_processing, a client calling cancel_job, and    *)
(* the worker threads start_processing creates.  Every step below is one   *)
(* atomic region of the code: a whole lock-protected method, or the        *)
(* stretch of the worker between two points where another thread can       *)
(* observe it.                                                             *)
(***************************************************************************)
EXTENDS Naturals, Sequences, FiniteSets, TLC

\* ------------------------------------------------------------------ bounds
\* Number of add_job calls.
MaxJobs == 2
\* Number of process_job calls the environment lets fail at the pipeline level.
MaxFailures == 4
\* The same two bounds for SpecWide: more jobs, fewer failures.
WideJobs == 3
WideFailures == 1
\* Number of worker threads start_processing may create.
MaxThreads == 2
\* Number of distinct job ids the producer uses (ids are 1..MaxIds).
MaxIds == 2
\* Number of paths under the pending directory (paths are 1..MaxPaths).
MaxPaths == 2
\* Number of file paths in one job.
MaxFiles == 2
\* Number of process_job activations of the file pipeline.
MaxRuns == 2
\* Number of files for which the environment makes a step fail (a database or disk
\* error the code did not cause).
MaxFaults == 1
\* Number of times the process is started again.
MaxStarts == 2
\* SpecLedger: number of add_job calls and of failed attempts, and the largest
\* limit get_job_history is called with.
LedgerJobs == 2
LedgerFailures == 1
MaxLimit == 2
\* SpecJob: number of add_job calls, and of process_job calls that fail at the
\* job level.
JobJobs == 2
JobFailures == 1
\* The latest clock reading up to which the environment lets time pass.
MaxClock == 350
\* Number of clock readings that fall on one calendar day.
DayLength == 5
\* SpecRestart: number of add_job calls and of worker threads.
RestartJobs == 3
RestartThreads == 3
\* SpecClient: number of add_job calls and of failed attempts, and the largest
\* timeout wait_for_completion is called with.
ClientJobs == 2
ClientFailures == 1
MaxTimeout == 1

\* ------------------------------------------------------- program constants
\* ProcessingJob.max_retries (dataclass default; add_job never overrides it).
max_retries == 3

\* Optional[datetime] = None; timestamps are clock readings >= 1.
None == 0

\* No file at a path.
NoFile == 0

\* ProcessingConfig.file_retention_days (default 30).
file_retention_days == 30

PENDING     == "pending"
IN_PROGRESS == "in_progress"
COMPLETED   == "completed"
FAILED      == "failed"
CANCELLED   == "cancelled"

JobStatus == {PENDING, IN_PROGRESS, COMPLETED, FAILED, CANCELLED}

\* The terminal states of the job state machine.
Terminal == {COMPLETED, FAILED, CANCELLED}

VARIABLES
    jobs,            \* every ProcessingJob object created by add_job, in creation order
    job_queue,       \* QueueProcessor.job_queue: FIFO of job objects (indices into jobs)
    unfinished,      \* queue.Queue.unfinished_tasks (put increments, task_done decrements)
    processed_jobs,  \* QueueProcessor.processed_jobs: dict id -> job, in insertion order
    is_running,      \* QueueProcessor.is_running
    worker_thread,   \* QueueProcessor.worker_thread: None or the thread created last
    threads,         \* every worker thread created: position in _worker_loop, job held,
                     \* attempt, and for a thread that has returned from _worker_loop the
                     \* queue as it left it
    ctl,             \* the controller's position: "idle", or "join" inside stop_processing
    clock,           \* the wall clock datetime.now() reads
    cancel_call      \* the last cancel_job call: whether it found the id in
                     \* processed_jobs, and what it returned

\* The file pipeline of JobProcessor.process_job: the walk over one job's files,
\* with the files, the dedup store and the database it works on.
VARIABLES
    pending_dir,         \* the files under the pending directory: path -> workbook, or NoFile
    _processed_files,    \* FileProcessor._processed_files: dict file_path -> record, in
                         \* insertion order
    processed_files_db,  \* what the file processed_files.json holds (the durable store)
    temp_tables,         \* the staging tables in the temp schema
    target,              \* the target table: whether it exists, whether it has a unique
                         \* index on the business key, and its rows
    frame,               \* the activation of process_job: position, job.files, the index of
                         \* the current file, processed_files, total_records, the job's
                         \* status and processing_stats
    file_log             \* one entry per file process_job has taken up, over all jobs: what
                         \* was read, what each step did and how the file ended

fvars == <<pending_dir, _processed_files, processed_files_db, temp_tables, target, frame,
           file_log>>

\* The variables of the queue, and all the variables.
qvars == <<jobs, job_queue, unfinished, processed_jobs, is_running, worker_thread,
           threads, ctl, cancel_call>>

\* The two FileProcessor objects of the process and the file they share: JobProcessor
\* builds one for the worker (queue_processor.py line 61; its dict is _processed_files
\* above), TrackAndTraceService builds another for the daily cleanup.
VARIABLES
    service_processed_files,  \* _processed_files of TrackAndTraceService.file_processor
    store_file,               \* the file processed_files.json: missing, ok or corrupt,
                              \* and its modification time
    startup,                  \* the process starts so far, and how the last construction
                              \* of the FileProcessor objects ended
    parked,                   \* the process_job activation of a second worker thread
                              \* while the first one runs (frame is the activation of
                              \* the thread that is running)
    pending_mtime,            \* st_mtime of the files under the pending directory
    archive                   \* the spreadsheets under processed_dir: date directory,
                              \* file name, content and st_mtime of each

\* What the read-only queries of the QueueProcessor returned last.
VARIABLES
    queue_status,   \* the dict get_queue_status returned
    job_history,    \* the limit get_job_history was called with, and the list it returned
    active_job,     \* what get_active_job returned: a job, or None
    wait_call       \* the last wait_for_completion call: its timeout and what it returned

rvars == <<queue_status, job_history, active_job, wait_call>>

\* The files the archiving works on.
avars == <<pending_mtime, archive>>

svars == <<service_processed_files, store_file, startup, parked, avars, rvars>>

vars == <<qvars, clock, fvars, svars>>

\* ----------------------------------------------------------------- helpers
JobIndex == 1..Len(jobs)
ThreadIndex == 1..Len(threads)

\* The ids the producer has used so far are 1..UsedIds (ids are opaque strings in
\* the code; a fresh id is always the next unused number).
UsedIds == Cardinality({jobs[j].id : j \in JobIndex})

\* job_data['id'] of the next add_job call: an id used before (the code does not
\* check uniqueness) or the next fresh one.
NextIds == {id \in 1..MaxIds : id <= UsedIds + 1}

\* An id no job ever carries.
UnknownId == MaxIds + 1

\* Number of process_job calls that have failed so far, over all jobs.
RECURSIVE FailuresUpTo(_)
FailuresUpTo(n) ==
    IF n = 0 THEN 0
    ELSE FailuresUpTo(n - 1)
         + Cardinality({k \in 1..Len(jobs[n].results) : ~jobs[n].results[k]})
Failures == FailuresUpTo(Len(jobs))

\* Position of the entry of key id in the dict processed_jobs, 0 when absent.
LedgerPos(id) ==
    IF \E p \in 1..Len(processed_jobs) : jobs[processed_jobs[p]].id = id
    THEN CHOOSE p \in 1..Len(processed_jobs) : jobs[processed_jobs[p]].id = id
    ELSE 0

\* A store that leaves a key it finds alone (setdefault in place of the assignment).
DictStoreKeepFirst(ledger, j) ==
    IF LedgerPos(jobs[j].id) = 0 THEN Append(ledger, j) ELSE ledger

\* processed_jobs[job.id] = job: a new key is appended, an existing key keeps its place.
DictStore(ledger, j) ==
    IF LedgerPos(jobs[j].id) = 0
    THEN Append(ledger, j)
    ELSE [ledger EXCEPT ![LedgerPos(jobs[j].id)] = j]

\* A thread that has not left _worker_loop.
Alive(t) == threads[t].pc # "dead"

\* A thread inside process_job or inside the backoff sleep of a job.
Executing(t) == threads[t].pc \in {"processing", "sleep"}

\* The retry controller is working on job j: from the dequeue to the return of
\* _process_job_with_retry.
Held(j) == \E t \in ThreadIndex :
              threads[t].job = j /\ threads[t].pc \in {"attempt", "processing", "sleep"}

Queued(j) == \E p \in 1..Len(job_queue) : job_queue[p] = j

\* ---------------------------------------------------------- retry controller
\* A linear backoff in place of the exponential one.
BackoffDelayLinear(attempt) == attempt + 1

\* time.sleep(2 ** attempt)
BackoffDelay(attempt) == 2 ^ attempt

\* A retry loop that does not return on success.
AfterAttemptNoReturn(success, attempt) ==
    IF attempt < max_retries THEN "sleep" ELSE "store"

\* Where the retry loop goes after process_job returned: return True on success,
\* sleep and loop when attempts remain, fall out of the loop (return False) otherwise.
\* (process_job catches every Exception itself and returns False, so the except
\* branch of the retry loop is never entered.)
AfterAttempt(success, attempt) ==
    IF success THEN "store"
    ELSE IF attempt < max_retries THEN "sleep"
    ELSE "store"

\* ------------------------------------------------------------- cancellation
\* A cancel_job that refuses only a running job.
CanCancelNotRunning(status) == status # IN_PROGRESS

\* A cancel_job without the test of the status.
CanCancelAny(status) == TRUE

\* cancel_job cancels only a job it finds PENDING.
CanCancel(status) == status = PENDING

\* ------------------------------------------------------------------ queries
\* The jobs of the ledger in the order of the dict: list(processed_jobs.values()).
LedgerValues == processed_jobs

\* A queue depth taken from the count of unfinished tasks.
qsize_unfinished == unfinished

\* job_queue.qsize()
qsize == Len(job_queue)

\* status_counts: one key per JobStatus value, counting the jobs of the ledger.
status_counts ==
    [status \in JobStatus |->
        Cardinality({p \in 1..Len(processed_jobs) :
                        jobs[processed_jobs[p]].status = status})]

\* No get_queue_status call yet.
NoStatus ==
    [called |-> FALSE, is_running |-> FALSE, pending_jobs |-> 0, total_processed |-> 0,
     status_counts |-> [status \in JobStatus |-> 0]]

\* The sort key of get_job_history: x.completed_at or x.created_at.  Every job of
\* the ledger has completed_at set (process_job sets it before the job is stored), so
\* the key is completed_at; created_at is not kept in the model.
SortKey(j) == jobs[j].completed_at

\* Insert job j into a list sorted by descending key, behind the jobs whose key is
\* not smaller.
RECURSIVE InsertDescending(_, _)
InsertDescending(sorted, j) ==
    IF sorted = << >> THEN <<j>>
    ELSE IF SortKey(Head(sorted)) >= SortKey(j)
    THEN <<Head(sorted)>> \o InsertDescending(Tail(sorted), j)
    ELSE <<j>> \o sorted

\* A sort that leaves out reverse=True: ascending by key, stable.
RECURSIVE sort_ascending(_)
sort_ascending(list) ==
    IF list = << >> THEN << >>
    ELSE LET rest == sort_ascending(SubSeq(list, 1, Len(list) - 1))
             j == list[Len(list)]
             k == Cardinality({p \in 1..Len(rest) : SortKey(rest[p]) <= SortKey(j)})
         IN SubSeq(rest, 1, k) \o <<j>> \o SubSeq(rest, k + 1, Len(rest))

\* jobs.sort(key=..., reverse=True): descending by key; list.sort is stable also with
\* reverse=True, so jobs of equal key keep the order they had.
RECURSIVE sort_descending(_)
sort_descending(list) ==
    IF list = << >> THEN << >>
    ELSE InsertDescending(sort_descending(SubSeq(list, 1, Len(list) - 1)),
                          list[Len(list)])

\* jobs[:limit] for limit >= 0.
Slice(list, limit) == SubSeq(list, 1, IF limit < Len(list) THEN limit ELSE Len(list))

\* The dict get_job_history builds for a job (email_uid, subject, sender, created_at
\* and processing_stats are not kept in the model).
HistoryEntry(j) ==
    [id            |-> jobs[j].id,
     status        |-> jobs[j].status,
     started_at    |-> jobs[j].started_at,
     completed_at  |-> jobs[j].completed_at,
     error_message |-> jobs[j].error_message,
     retry_count   |-> jobs[j].retry_count]

\* ------------------------------------------------------ file pipeline: data
Paths == 1..MaxPaths

Row(k, v) == [hawb |-> k, val |-> v]

\* The Excel workbooks that can lie in the pending directory.  bytes stands for the
\* byte string of the file (each workbook has its own), size for its length, columns
\* and rows for what pd.read_excel parses out of it:
\*   1  two rows, keys A and B
\*   2  the same table as 1 saved again: other bytes, equal parsed data
\*   3  a later value for key A
\*   4  key A twice
\*   5  no business-key column
\*   6  a file of zero bytes
\* (No workbook has an all-empty row or an empty cell, so dropna and fillna leave
\* every table as it is; every path ends in .xlsx; every non-empty file is readable.)
Workbooks == <<
    [bytes |-> 1, size |-> 1, columns |-> {"hawb", "val"}, rows |-> <<Row("A", 1), Row("B", 1)>>],
    [bytes |-> 2, size |-> 1, columns |-> {"hawb", "val"}, rows |-> <<Row("A", 1), Row("B", 1)>>],
    [bytes |-> 3, size |-> 1, columns |-> {"hawb", "val"}, rows |-> <<Row("A", 2)>>],
    [bytes |-> 4, size |-> 1, columns |-> {"hawb", "val"}, rows |-> <<Row("A", 1), Row("A", 2)>>],
    [bytes |-> 5, size |-> 1, columns |-> {"val"},         rows |-> <<[val |-> 1]>>],
    [bytes |-> 6, size |-> 0, columns |-> {},              rows |-> << >>] >>

WorkbookIndex == 1..Len(Workbooks)

\* DatabaseConfig.unique_key (default "hawb"), the business key.
unique_key == "hawb"

\* required_columns in validate_excel_file.
required_columns == {"hawb"}

\* A DataFrame: its columns and its rows.  NoFrame is the value of a name that holds
\* no DataFrame.
NoFrame == [columns |-> {}, rows |-> << >>]

\* pd.read_excel(file_path) of a file that is there.
read_excel(file_path) ==
    [columns |-> Workbooks[pending_dir[file_path]].columns,
     rows    |-> Workbooks[pending_dir[file_path]].rows]

\* hashlib.md5 over the bytes of the file; "" (here 0) when the file cannot be opened.
\* md5 is taken to be collision-free: equal fingerprints are equal bytes.
_calculate_file_hash(file_path) ==
    IF pending_dir[file_path] = NoFile THEN 0
    ELSE Workbooks[pending_dir[file_path]].bytes

\* md5 of df.to_string(index=False): the rendering shows every column and every
\* cell, so equal fingerprints are equal columns and equal rows.
_calculate_content_hash(df) == <<df.columns, df.rows>>

\* DatabaseHandler._clean_dataframe: the table as read, with the two metadata columns
\* processed_at = datetime.now() and file_source = 'email_attachment' added.
_clean_dataframe(df, now) ==
    [columns |-> df.columns \cup {"processed_at", "file_source"},
     rows    |-> [k \in 1..Len(df.rows) |->
                    df.rows[k] @@ [processed_at |-> now, file_source |-> "email_attachment"]]]

\* A validation without the check for the required columns.
validate_excel_file_any_columns(file_path) ==
    IF pending_dir[file_path] = NoFile THEN "File does not exist"
    ELSE IF Workbooks[pending_dir[file_path]].size = 0 THEN "File is empty"
    ELSE "valid"

\* validate_excel_file: the error it reports, or "valid".
validate_excel_file(file_path) ==
    IF pending_dir[file_path] = NoFile THEN "File does not exist"
    ELSE IF Workbooks[pending_dir[file_path]].size = 0 THEN "File is empty"
    ELSE IF read_excel(file_path).rows = << >> THEN "Excel file contains no data"
    ELSE IF ~(required_columns \subseteq read_excel(file_path).columns)
         THEN "Missing required columns"
    ELSE "valid"

\* ---------------------------------------------------- file pipeline: dedup
\* Position of the entry of key file_path in a dict of records, 0 when absent.
RecordPos(store, file_path) ==
    IF \E k \in 1..Len(store) : store[k].file_path = file_path
    THEN CHOOSE k \in 1..Len(store) : store[k].file_path = file_path
    ELSE 0

\* store[rec.file_path] = rec: a new key is appended, an existing key keeps its place
\* and loses its old record.
DictPut(store, rec) ==
    IF RecordPos(store, rec.file_path) = 0
    THEN Append(store, rec)
    ELSE [store EXCEPT ![RecordPos(store, rec.file_path)] = rec]

\* The key of the first of the entries of _processed_files at the positions hits, in
\* iteration order; None when there is none.
FirstMatch(hits) ==
    IF hits = {} THEN None
    ELSE _processed_files[CHOOSE k \in hits : \A m \in hits : k <= m].file_path

\* is_duplicate_file: the processed file with the same byte fingerprint, or None.
is_duplicate_file(file_path) ==
    IF _calculate_file_hash(file_path) = 0 THEN None
    ELSE FirstMatch({k \in 1..Len(_processed_files) :
                       _processed_files[k].file_hash = _calculate_file_hash(file_path)})

\* is_duplicate_content: the processed file with the same content fingerprint, or None.
is_duplicate_content(df) ==
    FirstMatch({k \in 1..Len(_processed_files) :
                  _processed_files[k].content_hash = _calculate_content_hash(df)})

\* FileProcessor.process_excel_file: validation, then the byte check, then the
\* content check on the DataFrame validation read.  (The DataFrame it returns for a
\* valid file is not used by process_job, so _process_dataframe is left out.)
process_excel_file(file_path) ==
    IF validate_excel_file(file_path) # "valid"
    THEN [is_valid |-> FALSE, error |-> "validation", duplicate_of |-> None]
    ELSE IF is_duplicate_file(file_path) # None
    THEN [is_valid |-> FALSE, error |-> "duplicate_file",
          duplicate_of |-> is_duplicate_file(file_path)]
    ELSE IF is_duplicate_content(read_excel(file_path)) # None
    THEN [is_valid |-> FALSE, error |-> "duplicate_content",
          duplicate_of |-> is_duplicate_content(read_excel(file_path))]
    ELSE [is_valid |-> TRUE, error |-> "", duplicate_of |-> None]

\* ------------------------------------------- file pipeline: the durable store
\* A load that lets the exception of open / json.load out.
_load_processed_files_unguarded(readable) ==
    IF store_file.state = "missing" THEN [raised |-> FALSE, files |-> << >>]
    ELSE IF store_file.state = "ok" /\ readable
    THEN [raised |-> FALSE, files |-> processed_files_db]
    ELSE [raised |-> TRUE, files |-> << >>]

\* FileProcessor._load_processed_files: the dict the store holds; an empty dict when
\* the store is missing, and when open or json.load raises (readable says whether the
\* file could be opened and read).  Nothing is raised to the caller.
_load_processed_files(readable) ==
    IF store_file.state = "ok" /\ readable
    THEN [raised |-> FALSE, files |-> processed_files_db]
    ELSE [raised |-> FALSE, files |-> << >>]

\* timedelta(days=file_retention_days) in clock readings.
retention == file_retention_days * DayLength

\* info['processed_at'] >= cutoff_date, with cutoff_date = now - file_retention_days.
Retained(rec, now) == rec.processed_at + retention >= now

\* The dict comprehension of _cleanup_processed_files_db: the entries not older than
\* the cutoff, in their order.
KeepRetained(files, now) == SelectSeq(files, LAMBDA rec : Retained(rec, now))

\* file_mtime < cutoff_date for the file processed_files.json, which lies under
\* processed_dir and is visited by cleanup_old_files like every other file there.
StoreFileIsOld(now) ==
    store_file.state # "missing" /\ store_file.mtime + retention < now

\* --------------------------------------------------- file pipeline: archive
\* A file name is its stem followed by the counters appended to it, <<s>> for "s.xlsx"
\* and <<s, 1>> for "s_1.xlsx".  source_path.name of the paths: paths 1 and 2 are
\* files of one name in two directories, paths 3 and 4 likewise, and so on.
source_name(file_path) == <<(file_path + 1) \div 2>>

\* datetime.now().strftime("%Y%m%d"): the calendar day of a clock reading.
strftime_Ymd(now) == now \div DayLength

\* destination_path.exists() in the date directory dir.
Exists(dir, name) == \E f \in archive : f.dir = dir /\ f.name = name

\* f"{name}_{counter}{ext}"
Suffixed(name, counter) == Append(name, counter)

\* The while loop of move_to_processed from counter on: the first suffixed name that
\* does not exist.
RECURSIVE FirstFreeSuffix(_, _, _)
FirstFreeSuffix(dir, name, counter) ==
    IF Exists(dir, Suffixed(name, counter))
    THEN FirstFreeSuffix(dir, name, counter + 1)
    ELSE Suffixed(name, counter)

\* destination_path after the loop: the name of the source when it is free, else the
\* first free suffixed name.
destination_path(dir, name) ==
    IF Exists(dir, name) THEN FirstFreeSuffix(dir, name, 1) ELSE name

\* shutil.move(source, destination): os.rename puts the file under the destination
\* name; a file that is there under that name is replaced (POSIX rename).  The file
\* keeps its st_mtime.
Moved(files, dest, workbook, mtime) ==
    {f \in files : ~(f.dir = dest.dir /\ f.name = dest.name)}
        \cup {[dir |-> dest.dir, name |-> dest.name, workbook |-> workbook,
                mtime |-> mtime]}

\* file_mtime < cutoff_date for an archived spreadsheet.
ArchivedFileIsOld(f, now) == f.mtime + retention < now

\* -------------------------------------------------- file pipeline: database
\* No target table.
NoTable == [exists |-> FALSE, unique |-> FALSE, rows |-> << >>]

\* CREATE TABLE target AS SELECT * FROM staging WHERE 1=0: the columns of the staging
\* table, no row, and no constraint or index.
CreatedFromStaging == [exists |-> TRUE, unique |-> FALSE, rows |-> << >>]

\* A target table the operator of the database created, with a unique index on the
\* business key.
CreatedWithUniqueKey == [exists |-> TRUE, unique |-> TRUE, rows |-> << >>]

\* Two rows of the table carry the same business key.
HasRepeatedKey(rows) ==
    \E k, m \in 1..Len(rows) : k # m /\ rows[k][unique_key] = rows[m][unique_key]

\* INSERT ... ON CONFLICT (unique_key) DO UPDATE raises when the target has no unique
\* index on the conflict column, and when one statement proposes the same key twice.
upsert_raises(table, staged) == ~table.unique \/ HasRepeatedKey(staged)

\* An INSERT without a conflict clause.
plain_insert(rows, staged) == rows \o staged

\* INSERT INTO target SELECT ... FROM staging ON CONFLICT (unique_key) DO UPDATE SET
\* every other column: a staged row replaces the target row of its key, or is added.
RECURSIVE upsert_query(_, _)
upsert_query(rows, staged) ==
    IF staged = << >> THEN rows
    ELSE LET src == Head(staged)
             merged == IF \E k \in 1..Len(rows) : rows[k][unique_key] = src[unique_key]
                       THEN [k \in 1..Len(rows) |->
                               IF rows[k][unique_key] = src[unique_key] THEN src
                               ELSE rows[k]]
                       ELSE Append(rows, src)
         IN upsert_query(merged, Tail(staged))

\* --------------------------------------------- file pipeline: process_job
\* f"temp_job_{job.id}_{uuid.uuid4().hex[:8]}": a name no other file gets.
temp_table_name == <<frame.n, frame.i>>

\* The rows of the staging table of the current file.
StagedRows == (CHOOSE t \in temp_tables : t.name = temp_table_name).rows

\* The file the loop of process_job is at.
file_path == frame.files[frame.i]

\* job.files of a job: one path or more, a path may repeat.
JobFiles == UNION {[1..k -> Paths] : k \in 1..MaxFiles}

\* No process_job activation.
IdleFrame ==
    [pc |-> "idle", n |-> 0, files |-> << >>, i |-> 0, processed_files |-> << >>,
     total_records |-> 0, loaded_df |-> NoFrame, destination |-> None,
     email_read |-> FALSE, status |-> PENDING,
     processing_stats |-> [total_records |-> 0, processed_files |-> 0, failed_files |-> 0]]

\* A loop that is left at the first continue (break in its place).
NextFileBreak(f) ==
    [f EXCEPT !.i = @ + 1, !.pc = "finish", !.loaded_df = NoFrame,
              !.destination = None]

\* continue / the end of the loop body: on to the next file, or out of the loop.
NextFile(f) ==
    [f EXCEPT !.i = @ + 1,
              !.pc = IF f.i < Len(f.files) THEN "file" ELSE "finish",
              !.loaded_df = NoFrame,
              !.destination = None]

\* The log entry of the current file (the last entry, unless another activation has
\* taken up a file since), and the log with that entry replaced.
ThisFilePos == CHOOSE k \in 1..Len(file_log) :
                  file_log[k].n = frame.n /\ file_log[k].i = frame.i
ThisFile == file_log[ThisFilePos]
Logged(entry) == [file_log EXCEPT ![ThisFilePos] = entry]

\* Number of process_job activations so far.
Activations == IF parked.n > frame.n THEN parked.n ELSE frame.n

\* Number of files for which the environment made a step fail.
Faults == Cardinality({k \in 1..Len(file_log) : file_log[k].fault})

\* --------------------------------------------------------------------- Init
Init ==
    /\ jobs = << >>
    /\ job_queue = << >>
    /\ unfinished = 0
    /\ processed_jobs = << >>
    /\ is_running = FALSE
    /\ worker_thread = None
    /\ threads = << >>
    /\ ctl = "idle"
    /\ clock = 1
    /\ cancel_call = [called |-> FALSE, found |-> FALSE, ret |-> FALSE]
    /\ pending_dir = [p \in Paths |-> NoFile]
    /\ _processed_files = << >>
    /\ processed_files_db = << >>
    /\ temp_tables = {}
    /\ target = NoTable
    /\ frame = IdleFrame
    /\ file_log = << >>
    /\ service_processed_files = << >>
    /\ store_file = [state |-> "missing", mtime |-> None]
    /\ startup = [starts |-> 1, constructed |-> TRUE, found |-> "missing"]
    /\ parked = IdleFrame
    /\ pending_mtime = [p \in Paths |-> None]
    /\ archive = {}
    /\ queue_status = NoStatus
    /\ job_history = [limit |-> 0, returned |-> << >>]
    /\ active_job = [called |-> FALSE, returned |-> None]
    /\ wait_call = [called |-> FALSE, timeout |-> None, ret |-> FALSE]

\* ----------------------------------------------------------------- producer
\* add_job: build a PENDING ProcessingJob and put it on the queue under the lock.
\* calls, results and backoffs are the record of what the retry controller did with
\* the job: process_job calls begun, their return values, the sleeps between them.
\* (email_uid, subject, sender, date, files and created_at play no part in the queue.)
add_job(id) ==
    /\ jobs' = Append(jobs,
                 [id            |-> id,
                  status        |-> PENDING,
                  started_at    |-> None,
                  completed_at  |-> None,
                  error_message |-> FALSE,
                  retry_count   |-> 0,
                  calls         |-> 0,
                  results       |-> << >>,
                  backoffs      |-> << >>])
    /\ job_queue' = Append(job_queue, Len(jobs) + 1)
    /\ unfinished' = unfinished + 1
    /\ UNCHANGED <<processed_jobs, is_running, worker_thread, threads, ctl, clock,
                   cancel_call>>
    /\ UNCHANGED <<fvars, svars>>

\* --------------------------------------------------------------- controller
\* start_processing: a no-op while is_running, else set the flag and start a thread.
start_processing ==
    /\ ctl = "idle"
    /\ IF is_running
       THEN UNCHANGED <<is_running, worker_thread, threads>>
       ELSE /\ is_running' = TRUE
            /\ threads' = Append(threads, [pc |-> "check", job |-> 0, attempt |-> 0,
                                           left |-> << >>])
            /\ worker_thread' = Len(threads) + 1
    /\ UNCHANGED <<jobs, job_queue, unfinished, processed_jobs, ctl, clock, cancel_call>>
    /\ UNCHANGED <<fvars, svars>>

\* stop_processing, first half: clear the flag; join when the thread is alive.
stop_processing ==
    /\ ctl = "idle"
    /\ is_running' = FALSE
    /\ ctl' = IF worker_thread # None /\ Alive(worker_thread) THEN "join" ELSE "idle"
    /\ UNCHANGED <<jobs, job_queue, unfinished, processed_jobs, worker_thread, threads,
                   clock, cancel_call>>
    /\ UNCHANGED <<fvars, svars>>

\* worker_thread.join(timeout=30) returns because the thread ended.
join_return ==
    /\ ctl = "join"
    /\ ~Alive(worker_thread)
    /\ ctl' = "idle"
    /\ UNCHANGED <<jobs, job_queue, unfinished, processed_jobs, is_running, worker_thread,
                   threads, clock, cancel_call>>
    /\ UNCHANGED <<fvars, svars>>

\* worker_thread.join(timeout=30) returns on its timeout: the thread is still inside
\* the execution of a job (process_job or a backoff sleep), which outlasts the wait.
join_timeout ==
    /\ ctl = "join"
    /\ Executing(worker_thread)
    /\ ctl' = "idle"
    /\ UNCHANGED <<jobs, job_queue, unfinished, processed_jobs, is_running, worker_thread,
                   threads, clock, cancel_call>>
    /\ UNCHANGED <<fvars, svars>>

\* ------------------------------------------------------------------- worker
\* while self.is_running:
worker_check(t) ==
    /\ threads[t].pc = "check"
    /\ threads' = [threads EXCEPT ![t].pc = IF is_running THEN "get" ELSE "dead",
                                  ![t].left = IF is_running THEN @ ELSE job_queue]
    /\ UNCHANGED <<jobs, job_queue, unfinished, processed_jobs, is_running, worker_thread,
                   ctl, clock, cancel_call>>
    /\ UNCHANGED <<fvars, svars>>

\* job = self.job_queue.get(timeout=1), a job is there (or arrives during the wait).
\* (add_job never puts None, so the "if job is None" test never holds.)
worker_get(t) ==
    /\ threads[t].pc = "get"
    /\ job_queue # << >>
    /\ threads' = [threads EXCEPT ![t].pc = "attempt", ![t].job = Head(job_queue),
                                  ![t].attempt = 0]
    /\ job_queue' = Tail(job_queue)
    /\ UNCHANGED <<jobs, unfinished, processed_jobs, is_running, worker_thread, ctl, clock,
                   cancel_call>>
    /\ UNCHANGED <<fvars, svars>>

\* job_queue.get() without a timeout: on an empty queue the thread stays in the call.
worker_get_blocks(t) ==
    /\ threads[t].pc = "get"
    /\ job_queue = << >>
    /\ FALSE
    /\ UNCHANGED vars

\* job_queue.get(timeout=1) raises queue.Empty: continue with the loop test.
worker_get_empty(t) ==
    /\ threads[t].pc = "get"
    /\ job_queue = << >>
    /\ threads' = [threads EXCEPT ![t].pc = "check"]
    /\ UNCHANGED <<jobs, job_queue, unfinished, processed_jobs, is_running, worker_thread,
                   ctl, clock, cancel_call>>
    /\ UNCHANGED <<fvars, svars>>

\* One iteration of the retry loop up to the start of the attempt: retry_count is
\* set on a repeated attempt, and process_job sets IN_PROGRESS and started_at.
attempt_begin(t) ==
    /\ threads[t].pc = "attempt"
    /\ LET j == threads[t].job
           a == threads[t].attempt
       IN jobs' = [jobs EXCEPT ![j].retry_count = IF a > 0 THEN a ELSE @,
                               ![j].status = IN_PROGRESS,
                               ![j].started_at = clock,
                               ![j].calls = @ + 1]
    /\ threads' = [threads EXCEPT ![t].pc = "processing"]
    /\ UNCHANGED <<job_queue, unfinished, processed_jobs, is_running, worker_thread, ctl,
                   clock, cancel_call>>
    /\ UNCHANGED <<fvars, svars>>

\* process_job runs to its end and returns success: True when the temp schema is
\* there and the files were walked (COMPLETED), False when the pipeline raised, as
\* when create_temp_schema() returns False (FAILED).  The retry loop then picks its
\* next step.
process_job(t, success) ==
    /\ threads[t].pc = "processing"
    /\ LET j == threads[t].job
       IN jobs' = [jobs EXCEPT ![j].status = IF success THEN COMPLETED ELSE FAILED,
                               ![j].completed_at = clock,
                               ![j].error_message = IF success THEN @ ELSE TRUE,
                               ![j].results = Append(@, success)]
    /\ threads' = [threads EXCEPT ![t].pc = AfterAttempt(success, threads[t].attempt)]
    /\ UNCHANGED <<job_queue, unfinished, processed_jobs, is_running, worker_thread, ctl,
                   clock, cancel_call>>
    /\ UNCHANGED <<fvars, svars>>

\* time.sleep(2 ** attempt), then the next iteration of the retry loop.
backoff(t) ==
    /\ threads[t].pc = "sleep"
    /\ LET j == threads[t].job
           d == BackoffDelay(threads[t].attempt)
       IN /\ clock' = clock + d
          /\ jobs' = [jobs EXCEPT ![j].backoffs = Append(@, d)]
    /\ threads' = [threads EXCEPT ![t].pc = "attempt", ![t].attempt = @ + 1]
    /\ UNCHANGED <<job_queue, unfinished, processed_jobs, is_running, worker_thread, ctl,
                   cancel_call>>
    /\ UNCHANGED <<fvars, svars>>

\* with self._lock: self.processed_jobs[job.id] = job; then job_queue.task_done().
store_job(t) ==
    /\ threads[t].pc = "store"
    /\ processed_jobs' = DictStore(processed_jobs, threads[t].job)
    /\ unfinished' = unfinished - 1
    /\ threads' = [threads EXCEPT ![t].pc = "check", ![t].job = 0]
    /\ UNCHANGED <<jobs, job_queue, is_running, worker_thread, ctl, clock, cancel_call>>
    /\ UNCHANGED <<fvars, svars>>

\* ------------------------------------------------------------------- client
\* cancel_job(job_id): under the lock, look the id up in processed_jobs.
cancel_job(id) ==
    LET p == LedgerPos(id)
        j == IF p = 0 THEN 0 ELSE processed_jobs[p]
        ok == p # 0 /\ CanCancel(jobs[j].status)
    IN /\ jobs' = IF ok
                  THEN [jobs EXCEPT ![j].status = CANCELLED, ![j].completed_at = clock]
                  ELSE jobs
       /\ cancel_call' = [called |-> TRUE, found |-> p # 0, ret |-> ok]
       /\ UNCHANGED <<job_queue, unfinished, processed_jobs, is_running, worker_thread,
                      threads, ctl, clock>>
       /\ UNCHANGED <<fvars, svars>>

\* get_queue_status: under the lock, the flag, the depth of the queue, the size of the
\* ledger and the count of its jobs per status.
get_queue_status ==
    /\ queue_status' = [called          |-> TRUE,
                        is_running      |-> is_running,
                        pending_jobs    |-> qsize,
                        total_processed |-> Len(processed_jobs),
                        status_counts   |-> status_counts]
    /\ UNCHANGED <<qvars, clock, fvars, service_processed_files, store_file, startup,
                   parked, avars, job_history, active_job, wait_call>>

\* get_job_history(limit): under the lock, the jobs of the ledger sorted by completion
\* time, most recent first, cut to limit and turned into dicts.
get_job_history(limit) ==
    /\ LET sorted == sort_descending(LedgerValues)
           cut == Slice(sorted, limit)
       IN job_history' = [limit    |-> limit,
                          returned |-> [k \in 1..Len(cut) |-> HistoryEntry(cut[k])]]
    /\ UNCHANGED <<qvars, clock, fvars, service_processed_files, store_file, startup,
                   parked, avars, queue_status, active_job, wait_call>>

\* get_active_job: under the lock, the first job of the ledger whose status is
\* IN_PROGRESS, or None.
get_active_job ==
    /\ LET hits == {p \in 1..Len(processed_jobs) :
                       jobs[processed_jobs[p]].status = IN_PROGRESS}
       IN active_job' =
             [called   |-> TRUE,
              returned |-> IF hits = {} THEN None
                           ELSE processed_jobs[CHOOSE p \in hits : \A q \in hits : p <= q]]
    /\ UNCHANGED <<qvars, clock, fvars, service_processed_files, store_file, startup,
                   parked, avars, queue_status, job_history, wait_call>>

\* wait_for_completion(timeout), at its return.  With a timeout (`if timeout:` holds)
\* it calls job_queue.join(), which returns once unfinished_tasks is 0, and returns
\* True.  Without one (None, or 0) it takes the loop: an empty queue ends the loop
\* and the call returns True; on a queue that is not empty the comparison with the
\* timeout ends the call with False (for None it raises TypeError, which the except
\* clause turns into False).
wait_for_completion(timeout) ==
    /\ IF timeout # None
       THEN /\ unfinished = 0
            /\ wait_call' = [called |-> TRUE, timeout |-> timeout, ret |-> TRUE]
       ELSE wait_call' = [called |-> TRUE, timeout |-> timeout,
                          ret |-> job_queue = << >>]
    /\ UNCHANGED <<qvars, clock, fvars, service_processed_files, store_file, startup,
                   parked, avars, queue_status, job_history, active_job>>

\* clear_completed_jobs: under the lock, the ledger without its COMPLETED, FAILED and
\* CANCELLED jobs.
clear_completed_jobs ==
    /\ processed_jobs' = SelectSeq(processed_jobs,
                                   LAMBDA j : jobs[j].status \notin Terminal)
    /\ UNCHANGED <<jobs, job_queue, unfinished, is_running, worker_thread, threads, ctl,
                   clock, cancel_call>>
    /\ UNCHANGED <<fvars, svars>>

\* ------------------------------------------------- file pipeline: actions
\* EmailAttachment.save_to_file and whoever else writes under the pending directory:
\* workbook w appears at a free path.
save_attachment(p, w) ==
    /\ frame.pc = "idle"
    /\ pending_dir[p] = NoFile
    /\ pending_dir' = [pending_dir EXCEPT ![p] = w]
    /\ pending_mtime' = [pending_mtime EXCEPT ![p] = clock]
    /\ UNCHANGED <<_processed_files, processed_files_db, temp_tables, target, frame,
                   file_log>>
    /\ UNCHANGED <<qvars, clock, service_processed_files, store_file, startup, parked,
                   archive, rvars>>

\* The operator of the database creates the target table ahead of the first upsert.
create_target_table ==
    /\ frame.pc = "idle"
    /\ ~target.exists
    /\ target' = CreatedWithUniqueKey
    /\ UNCHANGED <<pending_dir, _processed_files, processed_files_db, temp_tables, frame,
                   file_log>>
    /\ UNCHANGED <<qvars, clock, svars>>

\* process_job up to the loop: IN_PROGRESS, create_temp_schema() returned True.
process_job_begin(files) ==
    /\ frame.pc = "idle"
    /\ frame' = [IdleFrame EXCEPT !.pc = "file", !.n = Activations + 1, !.files = files,
                                  !.i = 1, !.status = IN_PROGRESS]
    /\ UNCHANGED <<pending_dir, _processed_files, processed_files_db, temp_tables, target,
                   file_log>>
    /\ UNCHANGED <<qvars, clock, svars>>

\* process_job when create_temp_schema() returned False: the exception it raises
\* ends the job FAILED before any file is taken up.
process_job_schema_failed(files) ==
    /\ frame.pc = "idle"
    /\ frame' = [IdleFrame EXCEPT !.n = Activations + 1, !.files = files,
                                  !.status = FAILED]
    /\ UNCHANGED <<pending_dir, _processed_files, processed_files_db, temp_tables, target,
                   file_log>>
    /\ UNCHANGED <<qvars, clock, svars>>

\* The loop body up to the first continue: process_excel_file(file_path).
check_file ==
    /\ frame.pc = "file"
    /\ LET checked == process_excel_file(file_path)
       IN /\ file_log' = Append(file_log,
                [n |-> frame.n, i |-> frame.i, file_path |-> file_path,
                 workbook |-> pending_dir[file_path],
                 outcome |-> IF checked.is_valid THEN "open" ELSE checked.error,
                 duplicate_of |-> checked.duplicate_of,
                 staged |-> FALSE, upsert |-> "none", flushed |-> FALSE,
                 dropped |-> FALSE, fault |-> FALSE])
          /\ frame' = IF checked.is_valid THEN [frame EXCEPT !.pc = "load"]
                      ELSE NextFile(frame)
    /\ UNCHANGED <<pending_dir, _processed_files, processed_files_db, temp_tables, target>>
    /\ UNCHANGED <<qvars, clock, svars>>

\* load_excel_to_temp_table(file_path, temp_table_name): read the file again, check
\* it, clean it, and create the staging table in one transaction; created says
\* whether create_temp_table got through.  A failure leaves no table.
load_excel_to_temp_table(created) ==
    /\ frame.pc = "load"
    /\ LET df == read_excel(file_path)
           loaded_df == _clean_dataframe(df, clock)
           success == df.rows # << >> /\ unique_key \in df.columns /\ created
       IN IF success
          THEN /\ temp_tables' = temp_tables \cup
                                   {[name |-> temp_table_name, rows |-> loaded_df.rows]}
               /\ frame' = [frame EXCEPT !.pc = "upsert", !.loaded_df = loaded_df]
               /\ file_log' = Logged([ThisFile EXCEPT !.staged = TRUE])
          ELSE /\ temp_tables' = temp_tables
               /\ frame' = NextFile(frame)
               /\ file_log' = Logged([ThisFile EXCEPT !.outcome = "load",
                                                       !.fault = ~created])
    /\ clock' = clock + 1
    /\ UNCHANGED <<pending_dir, _processed_files, processed_files_db, target>>
    /\ UNCHANGED <<qvars, svars>>

\* An upsert step whose return value process_job does not look at: the loop goes on
\* to the record whether the transaction committed or not.
upsert_data_to_target_table_unchecked(connected) ==
    /\ frame.pc = "upsert"
    /\ LET table == IF target.exists THEN target ELSE CreatedFromStaging
           success == connected /\ ~upsert_raises(table, StagedRows)
       IN /\ target' = IF success
                       THEN [table EXCEPT !.rows = upsert_query(table.rows, StagedRows)]
                       ELSE target
          /\ frame' = [frame EXCEPT !.pc = "mark"]
          /\ file_log' = Logged([ThisFile EXCEPT
                                   !.upsert = IF success THEN "ok" ELSE "failed",
                                   !.fault = ~connected])
    /\ UNCHANGED <<pending_dir, _processed_files, processed_files_db, temp_tables>>
    /\ UNCHANGED <<qvars, clock, svars>>

\* upsert_data_to_target_table(temp_table_name): in one transaction, create the target
\* from the staging table when it is missing, then run the upsert statement and
\* commit; connected says whether the database stayed reachable.  Any error rolls the
\* transaction back and returns False, and process_job goes on to the next file.
upsert_data_to_target_table(connected) ==
    /\ frame.pc = "upsert"
    /\ LET table == IF target.exists THEN target ELSE CreatedFromStaging
           success == connected /\ ~upsert_raises(table, StagedRows)
       IN IF success
          THEN /\ target' = [table EXCEPT !.rows = upsert_query(table.rows, StagedRows)]
               /\ frame' = [frame EXCEPT !.pc = "mark"]
               /\ file_log' = Logged([ThisFile EXCEPT !.upsert = "ok"])
          ELSE /\ target' = target
               /\ frame' = NextFile(frame)
               /\ file_log' = Logged([ThisFile EXCEPT !.upsert = "failed",
                                                       !.outcome = "upsert",
                                                       !.fault = ~connected])
    /\ UNCHANGED <<pending_dir, _processed_files, processed_files_db, temp_tables>>
    /\ UNCHANGED <<qvars, clock, svars>>

\* total_records += len(loaded_df), then mark_file_as_processed(file_path, loaded_df,
\* ...): the record goes into _processed_files under the path, and
\* _save_processed_files rewrites the store; written says whether the write got
\* through (its exception is caught and logged).
mark_file_as_processed(written) ==
    /\ frame.pc = "mark"
    /\ _processed_files' = DictPut(_processed_files,
                               [file_path    |-> file_path,
                                file_hash    |-> _calculate_file_hash(file_path),
                                content_hash |-> _calculate_content_hash(frame.loaded_df),
                                processed_at |-> clock])
    /\ processed_files_db' = IF written THEN _processed_files' ELSE processed_files_db
    /\ store_file' = IF written THEN [state |-> "ok", mtime |-> clock] ELSE store_file
    /\ frame' = [frame EXCEPT !.pc = "move",
                              !.total_records = @ + Len(frame.loaded_df.rows)]
    /\ file_log' = Logged([ThisFile EXCEPT !.fault = ~written])
    /\ UNCHANGED <<pending_dir, temp_tables, target>>
    /\ UNCHANGED <<qvars, clock, service_processed_files, startup, parked, avars, rvars>>

\* move_to_processed(file_path) up to the move: return False when the source is not
\* there; else take the date directory of today and, in it, the name of the source
\* or the first free suffixed name.
move_to_processed_destination ==
    /\ frame.pc = "move"
    /\ IF pending_dir[file_path] = NoFile
       THEN /\ frame' = [frame EXCEPT !.pc = "cleanup"]
            /\ file_log' = Logged([ThisFile EXCEPT !.outcome = "not_moved"])
       ELSE /\ frame' = [frame EXCEPT
                           !.pc = "rename",
                           !.destination =
                              [dir  |-> strftime_Ymd(clock),
                               name |-> destination_path(strftime_Ymd(clock),
                                                         source_name(file_path))]]
            /\ file_log' = file_log
    /\ UNCHANGED <<pending_dir, _processed_files, processed_files_db, temp_tables, target>>
    /\ UNCHANGED <<qvars, clock, svars>>

\* shutil.move(source_path, destination_path) and the return of move_to_processed;
\* if it returned True: processed_files.append(file_path).  moved says whether
\* shutil.move got through.
move_to_processed(moved) ==
    /\ frame.pc = "rename"
    /\ IF moved
       THEN /\ pending_dir' = [pending_dir EXCEPT ![file_path] = NoFile]
            /\ pending_mtime' = [pending_mtime EXCEPT ![file_path] = None]
            /\ archive' = Moved(archive, frame.destination, pending_dir[file_path],
                                pending_mtime[file_path])
            /\ frame' = [frame EXCEPT !.pc = "cleanup",
                                      !.processed_files = Append(@, file_path)]
            /\ file_log' = Logged([ThisFile EXCEPT
                              !.outcome = "processed",
                              !.flushed =
                                 /\ RecordPos(processed_files_db, file_path) # 0
                                 /\ processed_files_db[RecordPos(processed_files_db,
                                       file_path)].file_hash
                                    = Workbooks[ThisFile.workbook].bytes])
       ELSE /\ pending_dir' = pending_dir
            /\ pending_mtime' = pending_mtime
            /\ archive' = archive
            /\ frame' = [frame EXCEPT !.pc = "cleanup"]
            /\ file_log' = Logged([ThisFile EXCEPT !.outcome = "not_moved",
                                                    !.fault = TRUE])
    /\ UNCHANGED <<_processed_files, processed_files_db, temp_tables, target>>
    /\ UNCHANGED <<qvars, clock, service_processed_files, store_file, startup, parked,
                   rvars>>

\* cleanup_temp_table(temp_table_name), the last statement of the loop body; dropped
\* says whether DROP TABLE IF EXISTS got through.
cleanup_temp_table(dropped) ==
    /\ frame.pc = "cleanup"
    /\ temp_tables' = IF dropped THEN {t \in temp_tables : t.name # temp_table_name}
                      ELSE temp_tables
    /\ frame' = NextFile(frame)
    /\ file_log' = Logged([ThisFile EXCEPT !.dropped = dropped,
                                            !.fault = @ \/ ~dropped])
    /\ UNCHANGED <<pending_dir, _processed_files, processed_files_db, target>>
    /\ UNCHANGED <<qvars, clock, svars>>

\* An end of the loop that fails the job when a file was not processed.
process_job_end_strict(marked) ==
    /\ frame.pc = "finish"
    /\ frame' = [frame EXCEPT
                   !.pc = "idle",
                   !.status = IF Len(frame.processed_files) < Len(frame.files)
                              THEN FAILED ELSE COMPLETED]
    /\ UNCHANGED <<pending_dir, _processed_files, processed_files_db, temp_tables, target,
                   file_log>>
    /\ UNCHANGED <<qvars, clock, svars>>

\* After the loop: when processed_files is not empty, mark_email_as_read(job.email_uid)
\* (marked says whether the flag was set; a failure is logged and passed over); then
\* COMPLETED, completed_at, processing_stats; return True.
process_job_end(marked) ==
    /\ frame.pc = "finish"
    /\ frame' = [frame EXCEPT
                   !.pc = "idle",
                   !.email_read = frame.processed_files # << >> /\ marked,
                   !.status = COMPLETED,
                   !.processing_stats =
                      [total_records   |-> frame.total_records,
                       processed_files |-> Len(frame.processed_files),
                       failed_files    |-> Len(frame.files) - Len(frame.processed_files)]]
    /\ UNCHANGED <<pending_dir, _processed_files, processed_files_db, temp_tables, target,
                   file_log>>
    /\ UNCHANGED <<qvars, clock, svars>>

\* ----------------------------------------------- the store: start and cleanup
\* The process is started (again): TrackAndTraceService.setup_components builds the
\* QueueProcessor, whose JobProcessor builds the worker's FileProcessor, and then the
\* service's FileProcessor; each constructor loads the store.  What the process held
\* in memory before is gone; the files, the store and the database are as they were.
setup_components(readable) ==
    /\ frame.pc = "idle"
    /\ LET loaded == _load_processed_files(readable)
       IN /\ _processed_files' = loaded.files
          /\ service_processed_files' = loaded.files
          /\ startup' = [starts      |-> startup.starts + 1,
                         constructed |-> ~loaded.raised,
                         found       |-> IF readable THEN store_file.state
                                         ELSE "unreadable"]
    /\ UNCHANGED <<pending_dir, processed_files_db, temp_tables, target, frame, file_log,
                   store_file, parked, avars, rvars>>
    /\ UNCHANGED <<qvars, clock>>

\* TrackAndTraceService.run_daily_cleanup -> FileProcessor.cleanup_old_files on the
\* service's FileProcessor: the files under processed_dir older than the cutoff are
\* deleted (the archived spreadsheets and the store file among them), then
\* _cleanup_processed_files_db drops the old entries of the service's dict and,
\* when it dropped any, rewrites the store from that dict; written says whether the
\* write got through.
cleanup_old_files(written) ==
    LET kept == KeepRetained(service_processed_files, clock)
        save == Len(kept) < Len(service_processed_files) /\ written
    IN /\ service_processed_files' = kept
       /\ processed_files_db' = IF save THEN kept
                                ELSE IF StoreFileIsOld(clock) THEN << >>
                                ELSE processed_files_db
       /\ store_file' = IF save THEN [state |-> "ok", mtime |-> clock]
                        ELSE IF StoreFileIsOld(clock)
                             THEN [state |-> "missing", mtime |-> None]
                        ELSE store_file
       /\ archive' = {f \in archive : ~ArchivedFileIsOld(f, clock)}
       /\ UNCHANGED <<pending_dir, _processed_files, temp_tables, target, frame, file_log,
                      startup, parked, pending_mtime, rvars>>
       /\ UNCHANGED <<qvars, clock>>

\* The store file is damaged from outside the program (a disk error, a write cut
\* short by a crash): what is left does not parse.
damage_store ==
    /\ frame.pc = "idle"
    /\ store_file.state = "ok"
    /\ store_file' = [store_file EXCEPT !.state = "corrupt"]
    /\ processed_files_db' = << >>
    /\ UNCHANGED <<pending_dir, _processed_files, temp_tables, target, frame, file_log,
                   service_processed_files, startup, parked, avars, rvars>>
    /\ UNCHANGED <<qvars, clock>>

\* The scheduler of the threads takes the running worker thread off the processor
\* and lets the other one run.
switch ==
    /\ frame' = parked
    /\ parked' = frame
    /\ UNCHANGED <<pending_dir, _processed_files, processed_files_db, temp_tables, target,
                   file_log, service_processed_files, store_file, startup, avars, rvars>>
    /\ UNCHANGED <<qvars, clock>>

\* d days pass between two jobs.
days_pass(d) ==
    /\ frame.pc = "idle"
    /\ clock' = clock + d * DayLength
    /\ UNCHANGED <<qvars, fvars, svars>>

\* --------------------------------------------------------------------- Next
\* The steps of the system with at most maxJobs jobs submitted and at most
\* maxFailures failed attempts.
NextWithin(maxJobs, maxFailures) ==
    \/ /\ Len(jobs) < maxJobs
       /\ \E id \in NextIds : add_job(id)
    \/ /\ is_running \/ Len(threads) < MaxThreads
       /\ start_processing
    \/ stop_processing
    \/ join_return
    \/ join_timeout
    \/ \E t \in ThreadIndex : worker_check(t)
    \/ \E t \in ThreadIndex : worker_get(t)
    \/ \E t \in ThreadIndex : worker_get_empty(t)
    \/ \E t \in ThreadIndex : attempt_begin(t)
    \/ \E t \in ThreadIndex : process_job(t, TRUE)
    \/ /\ Failures < maxFailures
       /\ \E t \in ThreadIndex : process_job(t, FALSE)
    \/ \E t \in ThreadIndex : backoff(t)
    \/ \E t \in ThreadIndex : store_job(t)
    \/ \E id \in 1..UnknownId : cancel_job(id)

Next == NextWithin(MaxJobs, MaxFailures)

Spec == Init /\ [][Next]_vars

\* The same system with one more job and room for a single failed attempt.
NextWide == NextWithin(WideJobs, WideFailures)

SpecWide == Init /\ [][NextWide]_vars

\* ------------------------------------------------- the queue with its queries
\* The queue with the read-only queries and the clearing of the ledger.
LedgerNext ==
    \/ NextWithin(LedgerJobs, LedgerFailures)
    \/ get_queue_status
    \/ \E limit \in 0..MaxLimit : get_job_history(limit)
    \/ clear_completed_jobs

SpecLedger == Init /\ [][LedgerNext]_vars

\* ------------------------------------------------- the queue and its client
\* The queue with a client that asks for the active job and waits for completion.
ClientNext ==
    \/ NextWithin(ClientJobs, ClientFailures)
    \/ get_active_job
    \/ \E timeout \in 0..MaxTimeout : wait_for_completion(timeout)

SpecClient == Init /\ [][ClientNext]_vars

\* ------------------------------------------------- stopping and starting again
\* The queue being stopped and started again, with jobs that succeed at the first
\* attempt.
RestartNext ==
    \/ /\ Len(jobs) < RestartJobs
       /\ \E id \in NextIds : add_job(id)
    \/ /\ is_running \/ Len(threads) < RestartThreads
       /\ start_processing
    \/ stop_processing
    \/ join_return
    \/ join_timeout
    \/ \E t \in ThreadIndex : worker_check(t)
    \/ \E t \in ThreadIndex : worker_get(t)
    \/ \E t \in ThreadIndex : worker_get_empty(t)
    \/ \E t \in ThreadIndex : attempt_begin(t)
    \/ \E t \in ThreadIndex : process_job(t, TRUE)
    \/ \E t \in ThreadIndex : store_job(t)

SpecRestart == Init /\ [][RestartNext]_vars

\* ------------------------------------------------------------ fair worker
\* One step of worker thread t.
WorkerStep(t) ==
    /\ t \in ThreadIndex
    /\ \/ worker_check(t)
       \/ worker_get(t)
       \/ worker_get_empty(t)
       \/ attempt_begin(t)
       \/ process_job(t, TRUE)
       \/ Failures < MaxFailures /\ process_job(t, FALSE)
       \/ backoff(t)
       \/ store_job(t)

\* Spec with a scheduler that lets every started worker thread run: a thread that
\* can take a step takes one (get returns or times out after a second, a sleep
\* ends, process_job returns).
SpecFair == Spec /\ \A t \in 1..MaxThreads : WF_vars(WorkerStep(t))

\* ------------------------------------------------------- the file pipeline
\* The steps of process_job over the files of its job, with the environment of the
\* pipeline: at most maxRuns activations, and at most maxFaults files for which the
\* environment makes a step fail.
PipelineWithin(maxRuns, maxFaults) ==
    \/ /\ frame.n < maxRuns
       /\ \E p \in Paths, w \in WorkbookIndex : save_attachment(p, w)
    \/ /\ frame.n < maxRuns
       /\ create_target_table
    \/ /\ frame.n < maxRuns
       /\ \E files \in JobFiles : process_job_begin(files)
    \/ /\ frame.n < maxRuns
       /\ \E files \in JobFiles : process_job_schema_failed(files)
    \/ check_file
    \/ load_excel_to_temp_table(TRUE)
    \/ upsert_data_to_target_table(TRUE)
    \/ mark_file_as_processed(TRUE)
    \/ move_to_processed_destination
    \/ move_to_processed(TRUE)
    \/ cleanup_temp_table(TRUE)
    \/ /\ Faults < maxFaults
       /\ \/ load_excel_to_temp_table(FALSE)
          \/ upsert_data_to_target_table(FALSE)
          \/ mark_file_as_processed(FALSE)
          \/ move_to_processed(FALSE)
          \/ cleanup_temp_table(FALSE)
          \/ process_job_end(FALSE)
    \/ process_job_end(TRUE)

PipelineNext == PipelineWithin(MaxRuns, MaxFaults)

SpecPipeline == Init /\ [][PipelineNext]_vars

\* ------------------------------------------------- the store over restarts
\* The workbooks of the attachments that arrive while the store is watched.
StoreWorkbooks == {1, 3}

\* EmailAttachment.save_to_file builds the name from a timestamp and a uuid: an
\* attachment is saved under a path no file was saved under before.
FreshPath(p) ==
    /\ pending_dir[p] = NoFile
    /\ \A k \in 1..Len(file_log) : file_log[k].file_path # p

\* The pipeline on jobs of one saved attachment each, the process being started
\* again, the daily cleanup of the service, damage to the store file, and time
\* passing.
StoreNext ==
    \/ /\ frame.n < MaxRuns
       /\ \E p \in Paths, w \in StoreWorkbooks : FreshPath(p) /\ save_attachment(p, w)
    \/ /\ frame.n < MaxRuns
       /\ create_target_table
    \/ /\ frame.n < MaxRuns
       /\ \E p \in Paths : pending_dir[p] # NoFile /\ process_job_begin(<<p>>)
    \/ check_file
    \/ load_excel_to_temp_table(TRUE)
    \/ upsert_data_to_target_table(TRUE)
    \/ mark_file_as_processed(TRUE)
    \/ move_to_processed_destination
    \/ move_to_processed(TRUE)
    \/ cleanup_temp_table(TRUE)
    \/ process_job_end(TRUE)
    \/ /\ startup.starts <= MaxStarts
       /\ \E readable \in BOOLEAN : setup_components(readable)
    \/ \E written \in BOOLEAN : cleanup_old_files(written)
    \/ damage_store
    \/ \E d \in {file_retention_days, file_retention_days + 1} :
          clock + d * DayLength <= MaxClock /\ days_pass(d)

SpecStore == Init /\ [][StoreNext]_vars

\* ------------------------------------------------- two workers on the files
\* Two worker threads alive at once (stop_processing gave up its join after 30 s and
\* start_processing started a second thread), each inside process_job on a job of
\* one saved attachment, both on the one FileProcessor of the JobProcessor.
TwoWorkersNext ==
    \/ /\ Activations < MaxRuns
       /\ parked.pc = "idle"
       /\ \E p \in Paths, w \in StoreWorkbooks : FreshPath(p) /\ save_attachment(p, w)
    \/ /\ Activations < MaxRuns
       /\ parked.pc = "idle"
       /\ create_target_table
    \/ /\ Activations < MaxRuns
       /\ \E p \in Paths :
             /\ pending_dir[p] # NoFile
             /\ parked.files # <<p>>
             /\ process_job_begin(<<p>>)
    \/ check_file
    \/ load_excel_to_temp_table(TRUE)
    \/ upsert_data_to_target_table(TRUE)
    \/ mark_file_as_processed(TRUE)
    \/ move_to_processed_destination
    \/ move_to_processed(TRUE)
    \/ cleanup_temp_table(TRUE)
    \/ process_job_end(TRUE)
    \/ switch

SpecTwoWorkers == Init /\ [][TwoWorkersNext]_vars

\* ------------------------------------------- the retry loop around the files
\* Number of process_job calls begun so far, over all jobs.
RECURSIVE CallsUpTo(_)
CallsUpTo(n) == IF n = 0 THEN 0 ELSE CallsUpTo(n - 1) + jobs[n].calls
TotalCalls == CallsUpTo(Len(jobs))

\* The workbooks of the attachments of the jobs: a valid one and one without the
\* business-key column.
JobWorkbooks == {1, 5}

\* The one worker thread with the file pipeline inside its process_job call
\* (_process_job_with_retry line 267): the call made by attempt_begin runs one
\* activation of the pipeline on job.files (the same list at every attempt of a
\* job), and process_job returns what the activation returned.  Attachments are
\* saved before their job is added (EmailMonitor.process_emails).
JobNext ==
    \/ /\ Len(jobs) < JobJobs
       /\ \E id \in NextIds : add_job(id)
    \/ /\ threads = << >>
       /\ start_processing
    \/ \E t \in ThreadIndex : worker_check(t)
    \/ \E t \in ThreadIndex : worker_get(t)
    \/ \E t \in ThreadIndex : worker_get_empty(t)
    \/ \E t \in ThreadIndex : attempt_begin(t)
    \/ \E t \in ThreadIndex :
          /\ frame.pc = "idle"
          /\ frame.n = TotalCalls
          /\ process_job(t, frame.status = COMPLETED)
    \/ \E t \in ThreadIndex : backoff(t)
    \/ \E t \in ThreadIndex : store_job(t)
    \/ /\ Len(jobs) < JobJobs
       /\ \E p \in Paths, w \in JobWorkbooks : save_attachment(p, w)
    \/ /\ jobs = << >>
       /\ create_target_table
    \/ \E t \in ThreadIndex, files \in JobFiles :
          /\ threads[t].pc = "processing"
          /\ frame.n < TotalCalls
          /\ threads[t].attempt > 0 => files = frame.files
          /\ process_job_begin(files)
    \/ \E t \in ThreadIndex, files \in JobFiles :
          /\ threads[t].pc = "processing"
          /\ frame.n < TotalCalls
          /\ threads[t].attempt > 0 => files = frame.files
          /\ Failures < JobFailures
          /\ process_job_schema_failed(files)
    \/ check_file
    \/ load_excel_to_temp_table(TRUE)
    \/ upsert_data_to_target_table(TRUE)
    \/ mark_file_as_processed(TRUE)
    \/ move_to_processed_destination
    \/ move_to_processed(TRUE)
    \/ cleanup_temp_table(TRUE)
    \/ process_job_end(TRUE)
    \/ /\ Faults < MaxFaults
       /\ \/ load_excel_to_temp_table(FALSE)
          \/ upsert_data_to_target_table(FALSE)

SpecJob == Init /\ [][JobNext]_vars

\* ------------------------------------------------------------------- claims
\* Every attempt made on job j so far has failed.
AllFailed(j) == \A k \in 1..Len(jobs[j].results) : ~jobs[j].results[k]

\* _process_job_with_retry has returned for job j.
Returned(j) == jobs[j].calls > 0 /\ ~Held(j) /\ ~Queued(j)

\* C1: jobs are dequeued and started (PENDING -> IN_PROGRESS) in the order of their
\* submission: when a job leaves the queue no job submitted earlier is still in it,
\* and when a job is started no job submitted earlier is still PENDING.
C1_FifoDequeueAndStart ==
    [][\A j \in JobIndex :
          /\ (Queued(j) /\ ~(\E p \in 1..Len(job_queue') : job_queue'[p] = j))
                => \A i \in 1..(j - 1) : ~Queued(i)
          /\ (jobs[j].status = PENDING /\ jobs'[j].status = IN_PROGRESS)
                => \A i \in 1..(j - 1) : jobs[i].status # PENDING]_vars

\* C2: a job whose every attempt fails is attempted max_retries + 1 = 4 times, sleeps
\* 1, 2, 4 (2^k after the k-th failed attempt, k = 0, 1, 2) between the attempts and
\* not after the last one, and ends FAILED.
C2_RetryBudget ==
    \A j \in JobIndex :
        AllFailed(j) =>
            LET r == jobs[j].results
                b == jobs[j].backoffs
                c == jobs[j].calls
            IN /\ c <= max_retries + 1
               /\ Len(r) <= c /\ c <= Len(r) + 1
               /\ Len(b) <= c /\ c <= Len(b) + 1
               /\ Len(b) <= Len(r)
               /\ Len(b) <= max_retries
               /\ \A k \in 1..Len(b) : b[k] = 2 ^ (k - 1)
               /\ Returned(j) => /\ c = max_retries + 1
                                 /\ Len(r) = c
                                 /\ b = <<1, 2, 4>>
                                 /\ jobs[j].status = FAILED

\* A job has gone through the whole retry budget and the controller has returned.
C2_Witness ==
    \E j \in JobIndex :
        /\ Returned(j)
        /\ jobs[j].results = <<FALSE, FALSE, FALSE, FALSE>>
        /\ jobs[j].backoffs = <<1, 2, 4>>
        /\ jobs[j].status = FAILED

\* C3: once an attempt of a job succeeds the job is COMPLETED and process_job is not
\* called on it again: a successful return is the last return, and no call follows it.
C3_NoAttemptAfterSuccess ==
    \A j \in JobIndex :
        \A k \in 1..Len(jobs[j].results) :
            jobs[j].results[k] =>
                /\ k = Len(jobs[j].results)
                /\ jobs[j].calls = k
                /\ jobs[j].status = COMPLETED

\* A job succeeded on its second attempt, and the worker went on to take the next job.
C3_Witness ==
    \E j \in JobIndex :
        /\ jobs[j].results = <<FALSE, TRUE>>
        /\ Returned(j)
        /\ \E p \in 1..Len(processed_jobs) : processed_jobs[p] = j
        /\ \E i \in JobIndex : i # j /\ jobs[i].calls > 0

\* C4: completed_at is set exactly when the status is terminal, and once set it is
\* never assigned again.
C4_CompletedAtIffTerminal ==
    /\ [](\A j \in JobIndex :
             (jobs[j].completed_at # None) <=> (jobs[j].status \in Terminal))
    /\ [][\A j \in JobIndex :
             jobs[j].completed_at # None
                => jobs'[j].completed_at = jobs[j].completed_at]_vars

\* C5: started_at is assigned at the first transition out of PENDING and keeps that
\* value through every later attempt.
C5_StartedAtOnce ==
    /\ [](\A j \in JobIndex :
             (jobs[j].started_at = None) <=> (jobs[j].status = PENDING))
    /\ [][\A j \in JobIndex :
             jobs[j].started_at # None
                => jobs'[j].started_at = jobs[j].started_at]_vars

\* C6: no step changes the status of a job that is in a terminal state.
C6_TerminalIsFinal ==
    [][\A j \in JobIndex :
          jobs[j].status \in Terminal => jobs'[j].status = jobs[j].status]_vars

\* The id is carried by exactly one job, which is still in the queue and PENDING.
PendingInQueue(id) ==
    /\ Cardinality({j \in JobIndex : jobs[j].id = id}) = 1
    /\ \E j \in JobIndex : jobs[j].id = id /\ Queued(j) /\ jobs[j].status = PENDING

\* C7: cancel_job on a job that is still queued and PENDING returns True and makes the
\* job CANCELLED, and a CANCELLED job is never touched by the worker.
C7_CancelPending ==
    /\ [][\A id \in 1..MaxIds :
             (cancel_job(id) /\ PendingInQueue(id))
                => /\ cancel_call'.ret
                   /\ \A j \in JobIndex :
                         jobs[j].id = id => jobs'[j].status = CANCELLED]_vars
    /\ [][\A j \in JobIndex :
             jobs[j].status = CANCELLED => jobs'[j] = jobs[j]]_vars

\* The id is unknown, or a job carrying it is IN_PROGRESS or in a terminal state.
Rejectable(id) ==
    \/ \A j \in JobIndex : jobs[j].id # id
    \/ \E j \in JobIndex : jobs[j].id = id /\ jobs[j].status \in Terminal \cup {IN_PROGRESS}

\* C8: cancel_job on a job that is IN_PROGRESS, terminal or unknown returns False and
\* changes no job (status, completed_at), not the queue and not the ledger.
C8_CancelRejected ==
    [][\A id \in 1..UnknownId :
          (cancel_job(id) /\ Rejectable(id))
             => /\ ~cancel_call'.ret
                /\ UNCHANGED <<jobs, job_queue, processed_jobs>>]_vars

\* cancel_job found a terminal job in the ledger and returned False.
C8_Witness ==
    /\ cancel_call.called
    /\ cancel_call.found
    /\ ~cancel_call.ret
    /\ \E p \in 1..Len(processed_jobs) : jobs[processed_jobs[p]].status \in Terminal

\* C9: at most one worker thread is alive in the worker loop and at most one job is
\* being executed at any time.
C9_SingleWorker ==
    /\ Cardinality({t \in ThreadIndex : Alive(t)}) <= 1
    /\ Cardinality({t \in ThreadIndex : Executing(t)}) <= 1

\* C10: every dequeue from the job queue happens while the stop signal is not set
\* (is_running is True).
C10_NoDequeueAfterStop ==
    [][Len(job_queue') < Len(job_queue) => is_running]_vars

StoredTerminal(j) ==
    /\ j \in JobIndex
    /\ LedgerPos(jobs[j].id) # 0
    /\ processed_jobs[LedgerPos(jobs[j].id)] = j
    /\ jobs[j].status \in {COMPLETED, FAILED}

\* C12: every job a worker has dequeued is eventually in processed_jobs under its
\* id with status COMPLETED or FAILED, and processed_jobs changes only by the store
\* step of a worker, which is one lock-protected step (no cancel_job, no other
\* store runs inside it).
C12_DequeuedIsStored ==
    /\ \A j \in 1..MaxJobs : (j \in JobIndex /\ Held(j)) ~> StoredTerminal(j)
    /\ [][processed_jobs' # processed_jobs
            => \E t \in ThreadIndex :
                  /\ threads[t].pc = "store"
                  /\ jobs[threads[t].job].status \in {COMPLETED, FAILED}
                  /\ processed_jobs' = DictStore(processed_jobs, threads[t].job)
                  /\ jobs' = jobs]_vars

\* A job that failed every attempt and a job that completed are both in the ledger.
C12_Witness ==
    \E j, k \in JobIndex :
        /\ StoredTerminal(j) /\ jobs[j].status = FAILED
        /\ StoredTerminal(k) /\ jobs[k].status = COMPLETED

\* The log entries of the files of the current job, in the order they were taken up.
FilesOfJob == SelectSeq(file_log, LAMBDA e : e.n = frame.n)

\* C13: a file that fails (validation, duplicate, load, upsert) does not stop the
\* job: the files are taken up one by one in list order, a job whose loop was
\* entered ends COMPLETED with every file taken up, and its statistics count the
\* processed files and satisfy processed_files + failed_files = len(job.files).
C13_FileFailureDoesNotStopJob ==
    /\ \A k \in 1..Len(FilesOfJob) :
          FilesOfJob[k].i = k /\ FilesOfJob[k].file_path = frame.files[k]
    /\ frame.status = FAILED => FilesOfJob = << >>
    /\ frame.pc # "idle" => frame.status = IN_PROGRESS
    /\ (frame.pc = "idle" /\ frame.n > 0 /\ frame.status # FAILED)
          => /\ frame.status = COMPLETED
             /\ Len(FilesOfJob) = Len(frame.files)
             /\ frame.processing_stats.processed_files
                   = Cardinality({k \in 1..Len(FilesOfJob) :
                                     FilesOfJob[k].outcome = "processed"})
             /\ frame.processing_stats.processed_files
                   + frame.processing_stats.failed_files = Len(frame.files)

\* A job of two files, the first without the business-key column and the second
\* valid, has ended COMPLETED with processed_files = 1 and failed_files = 1.
C13_Witness ==
    /\ frame.pc = "idle"
    /\ frame.status = COMPLETED
    /\ Len(FilesOfJob) = 2
    /\ FilesOfJob[1].workbook # NoFile
    /\ Workbooks[FilesOfJob[1].workbook].size > 0
    /\ ~(unique_key \in Workbooks[FilesOfJob[1].workbook].columns)
    /\ FilesOfJob[1].outcome = "validation"
    /\ FilesOfJob[2].outcome = "processed"
    /\ frame.processing_stats.processed_files = 1
    /\ frame.processing_stats.failed_files = 1

\* C14: a file with the bytes of a file that was processed before (counted in
\* processed_files of this or an earlier job, under whatever path) is rejected as a
\* duplicate file: no staging table is created for it and no upsert is run for it.
C14_ByteDuplicateRejected ==
    \A k, m \in 1..Len(file_log) :
        (/\ m < k
         /\ file_log[m].outcome = "processed"
         /\ file_log[k].workbook = file_log[m].workbook)
        => /\ file_log[k].outcome = "duplicate_file"
           /\ ~file_log[k].staged
           /\ file_log[k].upsert = "none"

\* Workbooks v and w parse to the same table.
SameTable(v, w) ==
    /\ Workbooks[v].columns = Workbooks[w].columns
    /\ Workbooks[v].rows = Workbooks[w].rows

\* C15: a file whose bytes differ from every processed file and whose parsed table
\* equals that of a processed file is rejected as a content duplicate; when such a
\* file is taken up, the content fingerprint is_duplicate_content computes for it is
\* the content_hash some record of _processed_files holds.
C15_ContentDuplicateRejected ==
    /\ \A k, m \in 1..Len(file_log) :
          (/\ m < k
           /\ file_log[m].outcome = "processed"
           /\ file_log[k].workbook # NoFile
           /\ SameTable(file_log[k].workbook, file_log[m].workbook)
           /\ \A h \in 1..(k - 1) :
                 file_log[h].outcome = "processed"
                    => file_log[h].workbook # file_log[k].workbook)
          => file_log[k].outcome = "duplicate_content"
    /\ (/\ frame.pc = "file"
        /\ pending_dir[file_path] # NoFile
        /\ \E m \in 1..Len(file_log) :
              /\ file_log[m].outcome = "processed"
              /\ SameTable(pending_dir[file_path], file_log[m].workbook))
          => \E r \in 1..Len(_processed_files) :
                _processed_files[r].content_hash
                   = _calculate_content_hash(read_excel(file_path))

\* What lies at a path is no file, an empty file, or a workbook without the
\* business-key column.
Missing(w) == w = NoFile
Empty(w) == w # NoFile /\ Workbooks[w].size = 0
Keyless(w) == w # NoFile /\ Workbooks[w].size > 0 /\ ~(unique_key \in Workbooks[w].columns)

\* C16: a file that does not exist, is empty or lacks the business-key column fails
\* validation, and nothing is done in the database for it: the step that takes it
\* up leaves the staging tables and the target as they are and goes on to the next
\* file, no staging table is ever created for it and no upsert is run for it.
C16_InvalidFileTouchesNothing ==
    /\ [](\A k \in 1..Len(file_log) :
             (Missing(file_log[k].workbook) \/ Empty(file_log[k].workbook)
                 \/ Keyless(file_log[k].workbook))
                => /\ file_log[k].outcome = "validation"
                   /\ ~file_log[k].staged
                   /\ file_log[k].upsert = "none")
    /\ [][(/\ frame.pc = "file"
           /\ (Missing(pending_dir[file_path]) \/ Empty(pending_dir[file_path])
                  \/ Keyless(pending_dir[file_path])))
             => /\ temp_tables' = temp_tables
                /\ target' = target
                /\ frame'.pc \in {"file", "finish"}
                /\ frame'.i = frame.i + 1]_vars

\* A missing file, an empty file and a file without the key column have each been
\* taken up and have failed validation.
C16_Witness ==
    /\ \E k \in 1..Len(file_log) :
          Missing(file_log[k].workbook) /\ file_log[k].outcome = "validation"
    /\ \E k \in 1..Len(file_log) :
          Empty(file_log[k].workbook) /\ file_log[k].outcome = "validation"
    /\ \E k \in 1..Len(file_log) :
          Keyless(file_log[k].workbook) /\ file_log[k].outcome = "validation"

\* process_job is done with the file of log entry k.
Ended(k) == k < Len(file_log) \/ frame.pc \in {"idle", "file", "finish"}

\* cleanup_temp_table was called for the file of log entry k and failed.
CleanupFailed(k) ==
    file_log[k].outcome \in {"processed", "not_moved"} /\ ~file_log[k].dropped

\* C17: once process_job is done with a file (and so when the job is terminal), the
\* staging table created for the file no longer exists, whether load and upsert
\* succeeded or failed, unless cleanup_temp_table itself failed.
C17_StagingDropped ==
    \A k \in 1..Len(file_log) :
        (/\ Ended(k)
         /\ \E t \in temp_tables : t.name = <<file_log[k].n, file_log[k].i>>)
        => CleanupFailed(k)

\* C18: whatever upserts have run (into a target the first upsert had to create from
\* the staging table, from staging tables that carry a business key twice), the
\* target table holds at most one row per business key.
C18_OneRowPerKey == ~HasRepeatedKey(target.rows)

\* Upserts have run against a missing target (the create-then-upsert transaction
\* failed and was rolled back) and from a staging table with a key twice (rejected by
\* the database), and the target holds rows.
C18_Witness ==
    /\ target.rows # << >>
    /\ \E k \in 1..Len(file_log) :
          /\ file_log[k].upsert = "failed"
          /\ ~file_log[k].fault
          /\ ~HasRepeatedKey(Workbooks[file_log[k].workbook].rows)
    /\ \E k \in 1..Len(file_log) :
          /\ file_log[k].upsert = "failed"
          /\ HasRepeatedKey(Workbooks[file_log[k].workbook].rows)

\* The log entries of the upserts of the two-row dataset with keys A and B that ran
\* with the database reachable.
UpsertsOfAB ==
    {k \in 1..Len(file_log) :
        /\ file_log[k].upsert # "none"
        /\ ~(file_log[k].upsert = "failed" /\ file_log[k].fault)
        /\ Len(Workbooks[file_log[k].workbook].rows) = 2
        /\ {Workbooks[file_log[k].workbook].rows[r][unique_key] : r \in 1..2} = {"A", "B"}}

\* C19: the upsert is idempotent and the last write wins: once the dataset with keys
\* A and B has been upserted twice the target holds exactly two rows, and a
\* successful upsert leaves, for every staged row, exactly one target row with its
\* key, equal to the staged row in every column.
C19_UpsertIdempotent ==
    /\ [](Cardinality(UpsertsOfAB) >= 2 => Len(target.rows) = 2)
    /\ [][(frame.pc = "upsert" /\ frame'.pc = "mark")
             => \A r \in 1..Len(StagedRows) :
                   /\ Cardinality({k \in 1..Len(target'.rows) :
                         target'.rows[k][unique_key] = StagedRows[r][unique_key]}) = 1
                   /\ \E k \in 1..Len(target'.rows) : target'.rows[k] = StagedRows[r]]_vars

\* C20: whenever a file is counted as processed (appended to processed_files), the
\* durable store processed_files.json holds, at that moment, a record under its
\* path with its byte fingerprint, also when the write of the store failed.
C20_RecordFlushedBeforeCounted ==
    \A k \in 1..Len(file_log) :
        file_log[k].outcome = "processed" => file_log[k].flushed

\* C21: a record of the durable store whose processed_at is within the retention
\* period stays there: whatever the worker records and the service cleans up, in
\* whatever order, the store afterwards still holds a record with its byte
\* fingerprint (which a start of the process then loads), unless the store file was
\* damaged from outside or could not be read when the process started.
C21_RetainedRecordStays ==
    [][(store_file'.state # "corrupt" /\ startup'.found \in {"missing", "ok"})
          => \A k \in 1..Len(processed_files_db) :
                Retained(processed_files_db[k], clock')
                   => \E m \in 1..Len(processed_files_db') :
                         processed_files_db'[m].file_hash
                            = processed_files_db[k].file_hash]_vars

\* C22: no two records of the dedup index have the same file_hash.
C22_OneRecordPerFileHash ==
    \A k, m \in 1..Len(_processed_files) :
        _processed_files[k].file_hash = _processed_files[m].file_hash => k = m

\* C23: the construction of the FileProcessor objects always completes, and when the
\* store is missing, cannot be read or does not parse, the index starts empty.
C23_LoadNeverFailsHard ==
    /\ [](startup.constructed)
    /\ [][\A readable \in BOOLEAN :
             (setup_components(readable)
                 /\ (store_file.state \in {"missing", "corrupt"} \/ ~readable))
                => _processed_files' = << >> /\ service_processed_files' = << >>]_vars

\* The process was started on a store that does not parse, after a run that had
\* recorded a file, and came up with an empty index.
C23_Witness ==
    /\ startup.starts > 1
    /\ startup.found = "corrupt"
    /\ startup.constructed
    /\ _processed_files = << >>
    /\ \E k \in 1..Len(file_log) : file_log[k].outcome = "processed"

\* The thread is inside a process_job call whose pipeline has run to its end.
AtReturn(t) ==
    /\ threads[t].pc = "processing"
    /\ frame.pc = "idle"
    /\ frame.n = TotalCalls

\* The log entries of the files of the activation that ran last.
LastRun == {k \in 1..Len(file_log) : file_log[k].n = frame.n}

\* C24: a failed load or a failed upsert of a file is retried at the job level: when
\* process_job returns from an attempt in which the load or the upsert of a file
\* failed, and retry_count < max_retries, the retry controller goes on to a further
\* attempt (the backoff sleep, then the attempt that raises retry_count).
C24_LoadAndUpsertErrorsRetried ==
    [][\A t \in ThreadIndex :
          (/\ AtReturn(t)
           /\ threads'[t].pc # "processing"
           /\ \E k \in LastRun : file_log[k].outcome \in {"load", "upsert"}
           /\ jobs[threads[t].job].retry_count < max_retries)
          => threads'[t].pc = "sleep"]_vars

\* C25: a job is FAILED only when max_retries + 1 attempts of it have been made.
C25_FailedOnlyAfterBudget ==
    \A j \in JobIndex :
        jobs[j].status = FAILED => Len(jobs[j].results) = max_retries + 1

\* The outcomes of a file that failed validation or was rejected as a duplicate.
Rejections == {"validation", "duplicate_file", "duplicate_content"}

\* C26: a job whose files are each processed or rejected (validation, duplicate),
\* with nothing failing at the job level, is attempted once: when process_job
\* returns from its first attempt the job is COMPLETED with retry_count 0 and the
\* retry controller returns, and a job whose first attempt succeeded is never
\* attempted again, never gets a retry_count and is never FAILED.
C26_FileRejectionsStayInFile ==
    /\ [][\A t \in ThreadIndex :
             (/\ AtReturn(t)
              /\ threads'[t].pc # "processing"
              /\ threads[t].attempt = 0
              /\ Cardinality(LastRun) = Len(frame.files)
              /\ \A k \in LastRun : file_log[k].outcome \in Rejections \cup {"processed"})
             => /\ threads'[t].pc = "store"
                /\ jobs'[threads[t].job].status = COMPLETED
                /\ jobs'[threads[t].job].retry_count = 0
                /\ jobs'[threads[t].job].calls = 1]_vars
    /\ [](\A j \in JobIndex :
             (jobs[j].results # << >> /\ jobs[j].results[1])
                => /\ jobs[j].calls = 1
                   /\ jobs[j].retry_count = 0
                   /\ jobs[j].status = COMPLETED)

\* A job of two files, one without the business-key column and one with the bytes
\* of a file processed before, was attempted once, ended COMPLETED with no file
\* processed, and is in the ledger.
C26_Witness ==
    \E j \in JobIndex :
        /\ StoredTerminal(j)
        /\ jobs[j].status = COMPLETED
        /\ jobs[j].calls = 1
        /\ jobs[j].retry_count = 0
        /\ frame.n = TotalCalls
        /\ frame.pc = "idle"
        /\ Len(frame.files) = 2
        /\ frame.processing_stats.processed_files = 0
        /\ \E k \in LastRun : file_log[k].outcome = "validation"
        /\ \E k \in LastRun : file_log[k].outcome = "duplicate_file"

\* The sum of the five counts of a status_counts dict.
SumOfCounts(counts) ==
    counts[PENDING] + counts[IN_PROGRESS] + counts[COMPLETED] + counts[FAILED]
        + counts[CANCELLED]

\* C27: the dict get_queue_status returns has pending_jobs equal to the number of jobs
\* in the queue, total_processed equal to the number of ledger entries, a count for
\* each of the five statuses, each the number of ledger jobs in that status, and the
\* five counts sum to total_processed; the call changes neither the queue nor the
\* ledger nor any job.
C27_StatusSnapshot ==
    [][get_queue_status
          => /\ queue_status'.pending_jobs = Len(job_queue)
             /\ queue_status'.total_processed = Len(processed_jobs)
             /\ queue_status'.is_running = is_running
             /\ DOMAIN queue_status'.status_counts = JobStatus
             /\ Cardinality(DOMAIN queue_status'.status_counts) = 5
             /\ \A status \in JobStatus :
                   queue_status'.status_counts[status]
                      = Cardinality({j \in JobIndex :
                                       /\ jobs[j].status = status
                                       /\ LedgerPos(jobs[j].id) # 0
                                       /\ processed_jobs[LedgerPos(jobs[j].id)] = j})
             /\ SumOfCounts(queue_status'.status_counts) = Len(processed_jobs)
             /\ UNCHANGED <<jobs, job_queue, unfinished, processed_jobs>>]_vars

\* A snapshot was taken with the queue empty, one job in the hands of the worker and
\* one COMPLETED job in the ledger.
C27_Witness ==
    /\ queue_status.called
    /\ queue_status.pending_jobs = 0
    /\ queue_status.total_processed = 1
    /\ queue_status.status_counts[COMPLETED] = 1
    /\ job_queue = << >>
    /\ Len(processed_jobs) = 1
    /\ unfinished = 1
    /\ \E j \in JobIndex : Held(j)

\* C28: every job of the ledger has a completion time, and get_job_history(limit)
\* returns min(limit, size of the ledger) entries, each the entry of another job of
\* the ledger, ordered by completed_at from the most recent to the oldest, no job
\* left out being more recent than a job returned; the call changes neither the
\* ledger nor any job.
C28_HistoryMostRecentFirst ==
    /\ [](\A p \in 1..Len(processed_jobs) : jobs[processed_jobs[p]].completed_at # None)
    /\ [][\A limit \in 0..MaxLimit :
             get_job_history(limit)
                => LET r == job_history'.returned
                   IN /\ Len(r) <= limit
                      /\ Len(r) = limit \/ Len(r) = Len(processed_jobs)
                      /\ \A k \in 1..Len(r) :
                            \E q \in 1..Len(processed_jobs) :
                               r[k] = HistoryEntry(processed_jobs[q])
                      /\ \A k, m \in 1..Len(r) : k # m => r[k].id # r[m].id
                      /\ \A k, m \in 1..Len(r) :
                            k < m => r[k].completed_at >= r[m].completed_at
                      /\ \A q \in 1..Len(processed_jobs) :
                            (\A k \in 1..Len(r) : r[k].id # jobs[processed_jobs[q]].id)
                               => \A k \in 1..Len(r) :
                                     jobs[processed_jobs[q]].completed_at
                                        <= r[k].completed_at
                      /\ UNCHANGED <<jobs, processed_jobs>>]_vars

\* get_job_history(1) was called on a ledger of two jobs with different completion
\* times and returned the later one.
C28_Witness ==
    /\ job_history.limit = 1
    /\ Len(job_history.returned) = 1
    /\ Len(processed_jobs) = 2
    /\ jobs[processed_jobs[1]].completed_at # jobs[processed_jobs[2]].completed_at
    /\ \E q \in 1..2 : job_history.returned[1] = HistoryEntry(processed_jobs[q])
    /\ \A q \in 1..2 :
          jobs[processed_jobs[q]].completed_at <= job_history.returned[1].completed_at

\* The worker is done with job j: it was attempted, and no thread holds it any more.
Handled(j) ==
    /\ jobs[j].calls > 0
    /\ ~Queued(j)
    /\ \A t \in ThreadIndex : threads[t].job # j

\* The jobs submitted under an id, and the one submitted last.
JobsOfId(id) == {j \in JobIndex : jobs[j].id = id}
LastOfId(id) == CHOOSE j \in JobsOfId(id) : \A i \in JobsOfId(id) : i <= j

\* C29: when jobs were submitted under the same id and the worker is done with all
\* of them, the ledger holds one entry for the id, and it is the job submitted last.
C29_SameIdLastWrite ==
    \A id \in 1..MaxIds :
        (/\ Cardinality(JobsOfId(id)) >= 2
         /\ \A j \in JobsOfId(id) : Handled(j))
        => /\ Cardinality({p \in 1..Len(processed_jobs) :
                              jobs[processed_jobs[p]].id = id}) = 1
           /\ processed_jobs[LedgerPos(id)] = LastOfId(id)

\* C30: every job in the ledger is in a terminal state, and no step changes a field
\* of a job that is in the ledger (no retry, no cancel_job, no query); a job leaves
\* the ledger unchanged.
C30_LedgerIsReadOnly ==
    /\ [](\A p \in 1..Len(processed_jobs) : jobs[processed_jobs[p]].status \in Terminal)
    /\ [][\A p \in 1..Len(processed_jobs) :
             jobs'[processed_jobs[p]] = jobs[processed_jobs[p]]]_vars

\* cancel_job was called on a job of the ledger and refused, and another job, which
\* the worker had stored, has been cleared from the ledger.
C30_Witness ==
    /\ cancel_call.called /\ cancel_call.found /\ ~cancel_call.ret
    /\ \E j, k \in JobIndex :
          /\ jobs[j].id # jobs[k].id
          /\ Handled(j) /\ LedgerPos(jobs[j].id) = 0
          /\ StoredTerminal(k)

\* C31: archiving never overwrites an archived file.  Whenever move_to_processed has
\* moved a file, every file that was in the archive is still there as it was, and
\* the file has arrived in the date directory under the name of the source when that
\* name was free, and otherwise under the first suffixed name _1, _2, ... that was
\* free.
C31_ArchiveNeverOverwrites ==
    [][frame.pc = "rename" /\ frame'.pc = "cleanup" /\ archive' # archive =>
          /\ archive \subseteq archive'
          /\ \E f \in archive' \ archive :
                /\ f.dir = frame.destination.dir
                /\ f.name = destination_path(f.dir, source_name(file_path))]_vars

\* Three files of one name archived on one day: under the name, _1 and _2.
C31_ThreeOfOneName ==
    \E d \in 0..MaxClock, n \in 1..MaxPaths :
        \A name \in {<<n>>, <<n, 1>>, <<n, 2>>} : Exists(d, name)

\* C34: the email of a job is marked as read only if all the files of the job were
\* processed; a job with a failed file leaves its email unread.
C34_EmailReadOnlyIfAllProcessed ==
    frame.email_read => Len(frame.processed_files) = Len(frame.files)

\* The file a record of the dedup index was written for: a file process_job took up
\* under the path of the record, with the bytes of the record.
FilesOfRecord(rec) ==
    {k \in 1..Len(file_log) :
        /\ file_log[k].file_path = rec.file_path
        /\ file_log[k].workbook # NoFile
        /\ Workbooks[file_log[k].workbook].bytes = rec.file_hash}

\* The upsert of the file of log entry k was committed, and the target holds a row
\* for each of its keys.
Committed(k) ==
    /\ file_log[k].upsert = "ok"
    /\ \A r \in 1..Len(Workbooks[file_log[k].workbook].rows) :
          \E t \in 1..Len(target.rows) :
             target.rows[t].hawb = Workbooks[file_log[k].workbook].rows[r].hawb

\* C35: a FileRecord is added only after the upsert of its file has committed.  Every
\* record in the dedup index, in memory and in the store, belongs to a file whose
\* rows were committed to the target.
C35_RecordOnlyAfterCommit ==
    /\ \A p \in 1..Len(_processed_files) :
          \E k \in FilesOfRecord(_processed_files[p]) : Committed(k)
    /\ \A p \in 1..Len(processed_files_db) :
          \E k \in FilesOfRecord(processed_files_db[p]) : Committed(k)

\* One file was recorded, and the upsert of another file failed and left no record.
C35_Witness ==
    /\ _processed_files # << >>
    /\ \E k \in 1..Len(file_log) :
          /\ file_log[k].upsert = "failed"
          /\ RecordPos(_processed_files, file_log[k].file_path) = 0

\* The rows of the files of log entries S, added up.
RECURSIVE RowsOfFiles(_)
RowsOfFiles(S) ==
    IF S = {} THEN 0
    ELSE LET k == CHOOSE m \in S : TRUE
         IN (IF file_log[k].workbook = NoFile THEN 0
             ELSE Len(Workbooks[file_log[k].workbook].rows))
            + RowsOfFiles(S \ {k})

\* The files of the last activation that its failed_files counts: those that were
\* not appended to processed_files.
CountedFailed == {k \in LastRun : file_log[k].outcome # "processed"}

\* C36: a file counted in failed_files contributed nothing.  When process_job has
\* returned True, no file it counts as failed has had its upsert committed or a
\* FileRecord written (a file rejected as a duplicate has the record of the earlier
\* file), and total_records is the number of rows of the files counted as processed.
C36_FailedFileContributedNothing ==
    frame.pc = "idle" /\ frame.status = COMPLETED =>
        /\ frame.processing_stats.failed_files = Cardinality(CountedFailed)
        /\ \A k \in CountedFailed :
              /\ file_log[k].upsert # "ok"
              /\ file_log[k].duplicate_of = None =>
                    \A p \in 1..Len(_processed_files) :
                       k \notin FilesOfRecord(_processed_files[p])
        /\ frame.processing_stats.total_records = RowsOfFiles(LastRun \ CountedFailed)

\* C32: get_active_job returns the job the worker is executing.  A call made while a
\* worker thread is inside process_job returns the job of that thread, whose status
\* is IN_PROGRESS, and a call returns None only when no thread is inside process_job.
C32_ActiveJobIsTheRunningJob ==
    [][get_active_job =>
          /\ active_job'.returned # None =>
                \E t \in ThreadIndex :
                   /\ threads[t].pc = "processing"
                   /\ threads[t].job = active_job'.returned
                   /\ jobs[threads[t].job].status = IN_PROGRESS
          /\ active_job'.returned = None =>
                \A t \in ThreadIndex : threads[t].pc # "processing"]_vars

\* C33: wait_for_completion returns True only when every job submitted so far has
\* reached a terminal state, none still in the queue and none in the hands of a
\* worker, for a call with a timeout and for a call without one.
C33_WaitReturnsTrueWhenAllDone ==
    [][\A timeout \in 0..MaxTimeout :
          wait_for_completion(timeout) /\ wait_call'.ret =>
             \A j \in JobIndex :
                /\ jobs[j].status \in Terminal
                /\ ~Queued(j)
                /\ \A t \in ThreadIndex : threads[t].job # j]_vars

\* The part of C33 that holds: a call with a timeout returns only when all is done.
C33_WithTimeout ==
    [][\A timeout \in 1..MaxTimeout :
          wait_for_completion(timeout) /\ wait_call'.ret =>
             \A j \in JobIndex :
                /\ jobs[j].status \in Terminal
                /\ ~Queued(j)
                /\ \A t \in ThreadIndex : threads[t].job # j]_vars

\* No two submitted jobs carry the same id.
UniqueIds == \A i, j \in JobIndex : jobs[i].id = jobs[j].id => i = j

\* The jobs in the hands of a worker thread: dequeued and not yet stored.
InHand == {j \in JobIndex : \E t \in ThreadIndex : threads[t].job = j}

\* The count of C37 without the bound on the jobs in hand.
JobsConserved ==
    Len(jobs) = Len(job_queue) + Len(processed_jobs) + Cardinality(InHand)

\* C37: with unique job ids (and no clear_completed_jobs, which Spec does not call),
\* the number of submitted jobs is the number of queued jobs plus the number of
\* ledger entries plus the number of jobs held by a worker, which is 0 or 1.
C37_SubmittedJobsAccounted ==
    UniqueIds => JobsConserved /\ Cardinality(InHand) \in {0, 1}

\* The count alone, whatever the number of jobs in hand.
C37_CountAlone == UniqueIds => JobsConserved

\* C39: a job's error_message is set if and only if its status is FAILED (a job that
\* ends COMPLETED after failed attempts has none), and retry_count stays within
\* 0..max_retries.
C39_ErrorMessageIffFailed ==
    \A j \in JobIndex :
        /\ jobs[j].error_message <=> jobs[j].status = FAILED
        /\ jobs[j].retry_count \in 0..max_retries

\* The parts of C39 that hold: a FAILED job has an error_message, and retry_count
\* stays within 0..max_retries.
C39_FailedHasMessage ==
    \A j \in JobIndex :
        /\ jobs[j].status = FAILED => jobs[j].error_message
        /\ jobs[j].retry_count \in 0..max_retries

\* A job no worker has touched: as add_job built it.
Untouched(j) ==
    /\ jobs[j].status = PENDING
    /\ jobs[j].started_at = None
    /\ jobs[j].completed_at = None
    /\ ~jobs[j].error_message
    /\ jobs[j].retry_count = 0
    /\ jobs[j].calls = 0

\* The worker threads that have returned from _worker_loop.
Exited == {t \in ThreadIndex : threads[t].pc = "dead"}

\* The jobs a worker left in the queue when it exited are not lost: each is still in
\* the queue, PENDING and untouched, or a worker has taken it since.
LeftJobsKept ==
    \A t \in Exited : \A p \in 1..Len(threads[t].left) :
        LET j == threads[t].left[p]
        IN \/ Queued(j) /\ Untouched(j)
           \/ ~Queued(j) /\ (j \in InHand \/ jobs[j].results # << >>)

\* The jobs a worker left in the queue when it exited are begun in the order of their
\* submission.
LeftJobsInOrder ==
    \A t \in Exited : \A p, q \in 1..Len(threads[t].left) :
        p < q /\ jobs[threads[t].left[q]].calls > 0
            => jobs[threads[t].left[p]].calls > 0

\* C38: stopping does not lose work.  The jobs still queued when a worker exits stay
\* in the queue, PENDING and with unchanged fields, until a worker takes them, and
\* after a later start_processing they are processed in the order of their
\* submission.
C38_StopKeepsQueuedJobsInOrder ==
    /\ \A j \in JobIndex : Queued(j) => Untouched(j)
    /\ LeftJobsKept
    /\ LeftJobsInOrder

\* The part of C38 that holds: nothing queued is touched or lost.
C38_NothingLost ==
    /\ \A j \in JobIndex : Queued(j) => Untouched(j)
    /\ LeftJobsKept
====
